---------------------------- MODULE Spec2Model ----------------------------
(***************************************************************************)
(* Model of the vector store of src/vector_store/store.rs: a label table   *)
(* `words` kept beside a k-d tree `db` of embedding vectors, filled by     *)
(* add_vectore_by_word / add_vectore_by_text and read by similar_words.    *)
(* Each async method is cut at its await points: one action issues the     *)
(* request, one resumes the method with Ok(...) and one with Err(...).     *)
(*                                                                         *)
(* The index is the kdtree crate's KdTree as store.rs uses it: check_point *)
(* on add and nearest, one bucket of (point, data) pairs in insertion      *)
(* order, a bounded max-heap for the candidates of nearest and the heap    *)
(* sort that into_sorted_vec does.  A tree built by KdTree::new keeps all  *)
(* entries in that one bucket until it holds more than 16 of them; past    *)
(* that it splits into several buckets, which changes which of several     *)
(* equidistant entries comes first but not the distances returned.         *)
(***************************************************************************)
EXTENDS Integers, Sequences, FiniteSets, TLC

(* ------------------------------ bounds -------------------------------- *)

\* dimension the store is constructed with (VectorStore::new's argument)
Dim == 2

\* number of distinct well-formed vectors the provider answers with
MaxVec == 3

\* an insertion is only started if the index stays within MaxCount entries
\* when every word of it gets its vector
MaxCount == 2

\* longest text / word handed to the store in the short-input specifications
MaxTextLen == 2

\* largest top_k asked of similar_words
MaxTopK == 3

\* number of operations that may be in flight in SpecInterleaved
MaxOps == 2

\* `word_array.chunks(20)`
ChunkSize == 20

(* ------------------------------ values -------------------------------- *)

NL == "\n"

Letter == "a"

\* stands for an f64 that is not finite (NaN, +-inf)
NonFinite == 0 - 1

Min(a, b) == IF a <= b THEN a ELSE b

RECURSIVE Pow(_, _)
Pow(b, e) == IF e = 0 THEN 1 ELSE b * Pow(b, e - 1)

\* the i-th well-formed vector: the binary digits of i, lowest first
VecOf(i) == [d \in 1..Dim |-> (i \div Pow(2, d - 1)) % 2]

Vectors == {VecOf(i) : i \in 0..(MaxVec - 1)}

\* vectors the index rejects: too short, too long, a non-finite coordinate
BadVectors ==
    { [d \in 1..(Dim - 1) |-> 0],
      [d \in 1..(Dim + 1) |-> 0],
      [d \in 1..Dim |-> IF d = 1 THEN NonFinite ELSE 0] }

Repeat(c, n) == [i \in 1..n |-> c]

\* words handed to add_vectore_by_word
WordInputs == {<<>>, <<Letter>>}

\* the word handed to similar_words; it goes into the request and nowhere else
QueryWords == {<<Letter>>}

RECURSIVE SeqsUpTo(_, _)
SeqsUpTo(S, n) ==
    IF n = 0 THEN {<<>>}
    ELSE LET shorter == SeqsUpTo(S, n - 1)
         IN  shorter \cup {Append(s, c) : s \in {t \in shorter : Len(t) = n - 1}, c \in S}

\* every text of at most MaxTextLen characters over {a, newline}
ShortTexts == SeqsUpTo({Letter, NL}, MaxTextLen)

\* the i-th token of a long text: "a", "aa", "", "a", ...
Tok(i) == Repeat(Letter, i % 3)

\* tokens lo..hi joined by newlines
RECURSIVE JoinTokens(_, _)
JoinTokens(lo, hi) ==
    IF lo = hi THEN Tok(lo)
    ELSE LET mid == (lo + hi) \div 2
         IN  JoinTokens(lo, mid) \o <<NL>> \o JoinTokens(mid + 1, hi)

\* texts of exactly one chunk, one chunk and one token, two chunks and five
LongTexts == {JoinTokens(1, n) : n \in {ChunkSize, ChunkSize + 1, 2 * ChunkSize + 5}}

Ops == 1..MaxOps

(* --------------------------- the kdtree index -------------------------- *)

\* KdTree::new(dimensions): an empty leaf
KdTreeNew(dimensions) ==
    [dimensions |-> dimensions, size |-> 0, points |-> <<>>, bucket |-> <<>>]

is_finite(x) == x # NonFinite

\* KdTree::check_point: Ok iff the point has `dimensions` finite coordinates
check_point(tree, point) ==
    IF Len(point) # tree.dimensions THEN "WrongDimension"
    ELSE IF \E d \in 1..Len(point) : ~is_finite(point[d]) THEN "NonFiniteCoordinate"
    ELSE "Ok"

\* KdTree::add(point, data) -> Result<(), ErrorKind>
KdTreeAdd(tree, point, data) ==
    IF check_point(tree, point) # "Ok"
    THEN [err |-> check_point(tree, point), tree |-> tree]
    ELSE [err |-> "Ok",
          tree |-> [tree EXCEPT !.points = Append(@, point),
                                !.bucket = Append(@, data),
                                !.size = @ + 1]]

RECURSIVE SumSq(_, _, _)
SumSq(a, b, d) ==
    IF d = 0 THEN 0 ELSE (a[d] - b[d]) * (a[d] - b[d]) + SumSq(a, b, d - 1)

\* kdtree::distance::squared_euclidean
squared_euclidean(a, b) == SumSq(a, b, Len(a))

(* std BinaryHeap<HeapElement>, ordered by distance alone; data[1] is the max *)

RECURSIVE sift_up(_, _, _, _)
sift_up(data, start, pos, elt) ==
    IF pos > start /\ ~(elt.distance <= data[pos \div 2].distance)
    THEN sift_up([data EXCEPT ![pos] = data[pos \div 2]], start, pos \div 2, elt)
    ELSE [data EXCEPT ![pos] = elt]

HeapPush(data, elt) == sift_up(Append(data, elt), 1, Len(data) + 1, elt)

RECURSIVE sift_down_range(_, _, _, _)
sift_down_range(data, pos, end, elt) ==
    IF 2 * pos + 1 <= end
    THEN LET child == IF data[2 * pos].distance <= data[2 * pos + 1].distance
                      THEN 2 * pos + 1 ELSE 2 * pos
         IN  IF elt.distance >= data[child].distance
             THEN [data EXCEPT ![pos] = elt]
             ELSE sift_down_range([data EXCEPT ![pos] = data[child]], child, end, elt)
    ELSE IF 2 * pos = end /\ elt.distance < data[2 * pos].distance
         THEN [data EXCEPT ![pos] = data[2 * pos], ![2 * pos] = elt]
         ELSE [data EXCEPT ![pos] = elt]

RECURSIVE sift_down_to_bottom(_, _, _)
sift_down_to_bottom(data, pos, elt) ==
    IF 2 * pos + 1 <= Len(data)
    THEN LET child == IF data[2 * pos].distance <= data[2 * pos + 1].distance
                      THEN 2 * pos + 1 ELSE 2 * pos
         IN  sift_down_to_bottom([data EXCEPT ![pos] = data[child]], child, elt)
    ELSE IF 2 * pos = Len(data)
         THEN sift_up([data EXCEPT ![pos] = data[2 * pos]], 1, 2 * pos, elt)
         ELSE sift_up(data, 1, pos, elt)

\* BinaryHeap::pop: the heap left once the maximum is taken out
HeapPop(data) ==
    IF Len(data) = 1 THEN <<>>
    ELSE sift_down_to_bottom(SubSeq(data, 1, Len(data) - 1), 1, data[Len(data)])

\* BinaryHeap::into_sorted_vec: swap the root behind the heap, sift down
RECURSIVE into_sorted_vec(_, _)
into_sorted_vec(data, end) ==
    IF end <= 1 THEN data
    ELSE LET swapped == [data EXCEPT ![1] = data[end], ![end] = data[1]]
         IN  into_sorted_vec(
                 sift_down_range(swapped, 1, end - 1, swapped[1]), end - 1)

\* nearest_step over the bucket: entries in insertion order against the heap
RECURSIVE nearest_step(_, _, _, _, _)
nearest_step(tree, point, num, i, evaluated) ==
    IF i > tree.size THEN evaluated
    ELSE LET element == [distance |-> squared_euclidean(point, tree.points[i]),
                         element |-> tree.bucket[i]]
         IN  nearest_step(tree, point, num, i + 1,
                 IF Len(evaluated) < num THEN HeapPush(evaluated, element)
                 ELSE IF element.distance < evaluated[1].distance
                      THEN HeapPush(HeapPop(evaluated), element)
                      ELSE evaluated)

\* KdTree::nearest(point, num, &squared_euclidean) -> Result<Vec<(A, &T)>, _>
KdTreeNearest(tree, point, num) ==
    IF check_point(tree, point) # "Ok"
    THEN [err |-> check_point(tree, point), found |-> <<>>]
    ELSE IF Min(num, tree.size) = 0
         THEN [err |-> "Ok", found |-> <<>>]
         ELSE LET n == Min(num, tree.size)
                  evaluated == nearest_step(tree, point, n, 1, <<>>)
              IN  [err |-> "Ok", found |-> into_sorted_vec(evaluated, Len(evaluated))]

(* ------------------------------ the store ------------------------------ *)

VARIABLES
    words,      \* VectorStore.words
    db,         \* VectorStore.db
    net,        \* embedding requests sent and not yet answered
    ops,        \* the method calls: where each stands and what it returned
    panicked,   \* "none", or the panic that stopped the program
    log,        \* history: the (word, vector) pairs handed to VectorStore::add
    rejected    \* history: sizes before the first add of a vector of wrong length

vars == <<words, db, net, ops, panicked, log, rejected>>

NoRejection == [happened |-> FALSE, len |-> 0, size |-> 0]

IdleOp ==
    [kind |-> "none", pc |-> "idle", name |-> <<>>, text |-> <<>>,
     word_array |-> <<>>, chunk |-> 0, top_k |-> 0,
     status |-> "none", error |-> "none", out |-> <<>>,
     snapWords |-> <<>>, snapDb |-> KdTreeNew(Dim), sent |-> <<>>, got |-> <<>>,
     fetched |-> <<>>, hits |-> <<>>]

\* VectorStore::new(url, Some(Dim))
Init ==
    /\ words = <<>>
    /\ db = KdTreeNew(Dim)
    /\ net = {}
    /\ ops = [o \in Ops |-> IdleOp]
    /\ panicked = "none"
    /\ log = <<>>
    /\ rejected = NoRejection

\* the program state a handler works on, with the two history variables
Store ==
    [words |-> words, db |-> db, panicked |-> panicked,
     log |-> log, rejected |-> rejected]

\* add with the handle taken to be the length of the label table after the push
add_handle_is_len(st, word, vector) ==
    LET pushed == Append(st.words, word)
        r == KdTreeAdd(st.db, vector, Len(pushed))
    IN  IF st.panicked # "none" THEN st
        ELSE IF r.err # "Ok"
             THEN [st EXCEPT !.words = pushed, !.panicked = "add: unwrap on Err"]
             ELSE [st EXCEPT !.words = pushed, !.db = r.tree]

\* VectorStore::add: push the word, add the vector under handle len - 1, unwrap
add(st, word, vector) ==
    LET pushed == Append(st.words, word)
        r == KdTreeAdd(st.db, vector, Len(pushed) - 1)
    IN  IF st.panicked # "none" THEN st
        ELSE IF r.err # "Ok"
             THEN [st EXCEPT !.words = pushed, !.panicked = "add: unwrap on Err"]
             ELSE [st EXCEPT !.words = pushed, !.db = r.tree]

\* history only: the caller is about to hand (word, vector) to add
noted(st, word, vector) ==
    [st EXCEPT !.log = Append(@, [word |-> word, vector |-> vector]),
               !.rejected = IF ~@.happened /\ Len(vector) # st.db.dimensions
                            THEN [happened |-> TRUE, len |-> Len(st.words),
                                  size |-> st.db.size]
                            ELSE @]

\* find_similers that leaves out the nearest entry, as if it were the query word
find_similers_skip_nearest(st, vector, top_k) ==
    LET r == KdTreeNearest(st.db, vector, top_k)
        rest == IF r.found = <<>> THEN <<>> ELSE Tail(r.found)
    IN  IF r.err # "Ok"
        THEN [panicked |-> "find_similers: unwrap on Err", hits |-> <<>>, out |-> <<>>]
        ELSE [panicked |-> "none", hits |-> rest,
              out |-> [i \in 1..Len(rest) |-> st.words[rest[i].element + 1]]]

\* find_similers that indexes the label table by rank instead of by handle
find_similers_by_rank(st, vector, top_k) ==
    LET r == KdTreeNearest(st.db, vector, top_k)
    IN  IF r.err # "Ok"
        THEN [panicked |-> "find_similers: unwrap on Err", hits |-> <<>>, out |-> <<>>]
        ELSE [panicked |-> "none", hits |-> r.found,
              out |-> [i \in 1..Len(r.found) |-> st.words[i]]]

\* VectorStore::find_similers: nearest, unwrap, map each handle to its word
find_similers(st, vector, top_k) ==
    LET r == KdTreeNearest(st.db, vector, top_k)
    IN  IF r.err # "Ok"
        THEN [panicked |-> "find_similers: unwrap on Err", hits |-> <<>>, out |-> <<>>]
        ELSE IF \E i \in 1..Len(r.found) : r.found[i].element + 1 > Len(st.words)
             THEN [panicked |-> "find_similers: index out of bounds",
                   hits |-> r.found, out |-> <<>>]
             ELSE [panicked |-> "none", hits |-> r.found,
                   out |-> [i \in 1..Len(r.found) |-> st.words[r.found[i].element + 1]]]

\* str::split('\n'): the pieces between newlines, empty ones included; the
\* k-th piece runs from behind the (k-1)-th newline to before the k-th
split(text) ==
    LET newlines == {i \in 1..Len(text) : text[i] = NL}
        n == Cardinality(newlines) + 1
        at(k) == IF k = 0 THEN 0
                 ELSE IF k = n THEN Len(text) + 1
                 ELSE CHOOSE i \in newlines : Cardinality({j \in newlines : j <= i}) = k
    IN  [k \in 1..n |-> SubSeq(text, at(k - 1) + 1, at(k) - 1)]

\* slice::chunks(ChunkSize): the c-th chunk, c = 1, 2, ...
chunks(word_array, c) ==
    SubSeq(word_array, (c - 1) * ChunkSize + 1, Min(c * ChunkSize, Len(word_array)))

\* chunking that stops before a last chunk of fewer than ChunkSize words
has_next_chunk_full_only(word_array, c) == (c + 1) * ChunkSize <= Len(word_array)

\* whether chunks() yields a chunk after the c-th
has_next_chunk(word_array, c) == c * ChunkSize < Len(word_array)

\* `for j in 0..vector.0.len() { self.add(i[j].to_string(), vector.0[j].clone()) }`
RECURSIVE add_each(_, _, _, _)
add_each(st, i, vector, j) ==
    IF st.panicked # "none" \/ j > Len(vector) THEN st
    ELSE IF j > Len(i)
         THEN [st EXCEPT !.panicked = "add_vectore_by_text: index out of bounds"]
         ELSE add_each(add(noted(st, i[j], vector[j]), i[j], vector[j]), i, vector, j + 1)

(* ----------------------- the embedding provider ------------------------ *)

GetRequest(o, word) == [op |-> o, method |-> "GET", body |-> <<word>>]

PostRequest(o, word_array) == [op |-> o, method |-> "POST", body |-> word_array]

\* what can come back for one word: any vector, well-formed or not
WordResponses == Vectors \cup BadVectors

\* how many vectors can come back for n words: none, n - 1, n or n + 1
ResponseLens(n) == {l \in 0..(n + 1) : l = 0 \/ l >= n - 1}

\* what can come back for a batch: l vectors that cycle through Vectors from
\* some start, or such a list with its first or last vector malformed
BatchResponses(word_array) ==
    LET good(l, s) == [j \in 1..l |-> VecOf((s + j) % MaxVec)]
    IN  {good(l, s) : l \in ResponseLens(Len(word_array)), s \in 0..(MaxVec - 1)}
        \cup UNION {{[good(l, 0) EXCEPT ![p] = bad] : p \in {1, l}, bad \in BadVectors} :
                        l \in ResponseLens(Len(word_array)) \ {0}}

\* the failures of a fetch: `fetch(..).await?` or `from_value(json)?`
Errors == {"ProviderError", "DeserializationError"}

(* ------------------------------- actions ------------------------------- *)

\* the responses the provider may give to the batch request op o waits for
BatchResponsesFor(o) ==
    IF ops[o].kind = "text" /\ ops[o].pc = "await"
    THEN BatchResponses(chunks(ops[o].word_array, ops[o].chunk))
    ELSE {}

CanCall(o) == panicked = "none" /\ ops[o].pc # "await"

Outstanding(o) == {r \in net : r.op = o}

Awaiting(o, kind) == panicked = "none" /\ ops[o].pc = "await" /\ ops[o].kind = kind

Commit(st) ==
    /\ words' = st.words
    /\ db' = st.db
    /\ panicked' = st.panicked
    /\ log' = st.log
    /\ rejected' = st.rejected

\* add_vectore_by_word that pushes the label before it awaits the vector
add_vectore_by_word_call_push_first(o, name) ==
    /\ CanCall(o)
    /\ net' = net \cup {GetRequest(o, name)}
    /\ ops' = [ops EXCEPT ![o] = [IdleOp EXCEPT !.kind = "word", !.pc = "await",
                                                 !.name = name, !.snapWords = words,
                                                 !.snapDb = db]]
    /\ words' = Append(words, name)
    /\ UNCHANGED <<db, panicked, log, rejected>>

\* add_vectore_by_word up to `get_embbide_request(..).await`
add_vectore_by_word_call(o, name) ==
    /\ CanCall(o)
    /\ net' = net \cup {GetRequest(o, name)}
    /\ ops' = [ops EXCEPT ![o] = [IdleOp EXCEPT !.kind = "word", !.pc = "await",
                                                 !.name = name, !.snapWords = words,
                                                 !.snapDb = db]]
    /\ UNCHANGED <<words, db, panicked, log, rejected>>

\* the request failed: `?` returns the error
add_vectore_by_word_err(o, e) ==
    /\ Awaiting(o, "word")
    /\ net' = net \ Outstanding(o)
    /\ ops' = [ops EXCEPT ![o].pc = "done", ![o].status = "err", ![o].error = e]
    /\ UNCHANGED <<words, db, panicked, log, rejected>>

\* the request gave a vector: `self.add(name, vector.0); Ok(())`
add_vectore_by_word_ok(o, vector) ==
    /\ Awaiting(o, "word")
    /\ net' = net \ Outstanding(o)
    /\ LET st == add(noted(Store, ops[o].name, vector), ops[o].name, vector)
       IN  /\ Commit(st)
           /\ ops' = [ops EXCEPT ![o].fetched = <<vector>>,
                                 ![o].pc = IF st.panicked = "none" THEN "done" ELSE "panicked",
                                 ![o].status = IF st.panicked = "none" THEN "ok" ELSE "none"]

\* add_vectore_by_text up to the first `get_embbide_request_array(..).await`
add_vectore_by_text_call(o, text) ==
    /\ CanCall(o)
    /\ LET word_array == split(text)
       IN  /\ net' = net \cup {PostRequest(o, chunks(word_array, 1))}
           /\ ops' = [ops EXCEPT ![o] = [IdleOp EXCEPT !.kind = "text", !.pc = "await",
                                                        !.text = text,
                                                        !.word_array = word_array,
                                                        !.chunk = 1,
                                                        !.sent = <<chunks(word_array, 1)>>,
                                                        !.snapWords = words,
                                                        !.snapDb = db]]
    /\ UNCHANGED <<words, db, panicked, log, rejected>>

\* a failed chunk that undoes the chunks before it
add_vectore_by_text_err_rollback(o, e) ==
    /\ Awaiting(o, "text")
    /\ net' = net \ Outstanding(o)
    /\ ops' = [ops EXCEPT ![o].pc = "done", ![o].status = "err", ![o].error = e]
    /\ words' = ops[o].snapWords
    /\ db' = ops[o].snapDb
    /\ log' = SubSeq(log, 1, Len(ops[o].snapWords))
    /\ UNCHANGED <<panicked, rejected>>

\* the request of the current chunk failed: `?` returns the error
add_vectore_by_text_err(o, e) ==
    /\ Awaiting(o, "text")
    /\ net' = net \ Outstanding(o)
    /\ ops' = [ops EXCEPT ![o].pc = "done", ![o].status = "err", ![o].error = e]
    /\ UNCHANGED <<words, db, panicked, log, rejected>>

\* the request of the current chunk gave vectors: add them, go on to the next
\* chunk's request or return Ok(())
add_vectore_by_text_ok(o, vector) ==
    /\ Awaiting(o, "text")
    /\ LET i == chunks(ops[o].word_array, ops[o].chunk)
           st == add_each(Store, i, vector, 1)
           more == has_next_chunk(ops[o].word_array, ops[o].chunk)
           next == chunks(ops[o].word_array, ops[o].chunk + 1)
       IN  /\ Commit(st)
           /\ IF st.panicked # "none"
              THEN /\ net' = net \ Outstanding(o)
                   /\ ops' = [ops EXCEPT ![o].pc = "panicked",
                                         ![o].got = Append(@, Len(vector))]
              ELSE IF more
                   THEN /\ net' = (net \ Outstanding(o)) \cup {PostRequest(o, next)}
                        /\ ops' = [ops EXCEPT ![o].chunk = @ + 1,
                                              ![o].sent = Append(@, next),
                                              ![o].got = Append(@, Len(vector))]
                   ELSE /\ net' = net \ Outstanding(o)
                        /\ ops' = [ops EXCEPT ![o].pc = "done", ![o].status = "ok",
                                              ![o].got = Append(@, Len(vector))]

\* similar_words up to `get_embbide_request(..).await`
similar_words_call(o, word, top_k) ==
    /\ CanCall(o)
    /\ net' = net \cup {GetRequest(o, word)}
    /\ ops' = [ops EXCEPT ![o] = [IdleOp EXCEPT !.kind = "query", !.pc = "await",
                                                 !.name = word, !.top_k = top_k,
                                                 !.snapWords = words, !.snapDb = db]]
    /\ UNCHANGED <<words, db, panicked, log, rejected>>

\* the request failed: `?` returns the error
similar_words_err(o, e) ==
    /\ Awaiting(o, "query")
    /\ net' = net \ Outstanding(o)
    /\ ops' = [ops EXCEPT ![o].pc = "done", ![o].status = "err", ![o].error = e]
    /\ UNCHANGED <<words, db, panicked, log, rejected>>

\* the request gave a vector: `Ok(StringCollection(self.find_similers(..)))`
similar_words_ok(o, vector) ==
    /\ Awaiting(o, "query")
    /\ net' = net \ Outstanding(o)
    /\ LET r == find_similers(Store, vector, ops[o].top_k)
       IN  /\ panicked' = r.panicked
           /\ ops' = [ops EXCEPT ![o].fetched = <<vector>>,
                                 ![o].hits = r.hits,
                                 ![o].out = r.out,
                                 ![o].pc = IF r.panicked = "none" THEN "done" ELSE "panicked",
                                 ![o].status = IF r.panicked = "none" THEN "ok" ELSE "none"]
    /\ UNCHANGED <<words, db, log, rejected>>

(* ---------------------------- specifications --------------------------- *)

\* the inputs that keep the index within MaxCount entries
WordsThatFit == {name \in WordInputs : Len(words) + 1 <= MaxCount}

TextsThatFit(texts) == {text \in texts : Len(words) + Len(split(text)) <= MaxCount}

\* long texts go into a store that holds nothing yet
TextsForEmpty(texts) == {text \in texts : Len(words) = 0}

\* one caller, one call at a time (the `&mut self` contract), short inputs
Next ==
    \/ \E name \in WordsThatFit : add_vectore_by_word_call(1, name)
    \/ \E e \in Errors : add_vectore_by_word_err(1, e)
    \/ \E vector \in WordResponses : add_vectore_by_word_ok(1, vector)
    \/ \E text \in TextsThatFit(ShortTexts) : add_vectore_by_text_call(1, text)
    \/ \E e \in Errors : add_vectore_by_text_err(1, e)
    \/ \E vector \in BatchResponsesFor(1) :
           add_vectore_by_text_ok(1, vector)
    \/ \E word \in QueryWords, top_k \in 0..MaxTopK : similar_words_call(1, word, top_k)
    \/ \E e \in Errors : similar_words_err(1, e)
    \/ \E vector \in WordResponses : similar_words_ok(1, vector)

Spec == Init /\ [][Next]_vars

\* one caller, texts of one to three chunks, and queries
NextBatch ==
    \/ \E text \in TextsForEmpty(LongTexts) : add_vectore_by_text_call(1, text)
    \/ \E e \in Errors : add_vectore_by_text_err(1, e)
    \/ \E vector \in BatchResponsesFor(1) :
           add_vectore_by_text_ok(1, vector)
    \/ \E word \in QueryWords, top_k \in 0..MaxTopK : similar_words_call(1, word, top_k)
    \/ \E e \in Errors : similar_words_err(1, e)
    \/ \E vector \in WordResponses : similar_words_ok(1, vector)

SpecBatch == Init /\ [][NextBatch]_vars

\* several insertions in flight, each resumed whenever its response arrives
NextInterleaved ==
    \E o \in Ops :
        \/ \E name \in WordsThatFit : add_vectore_by_word_call(o, name)
        \/ \E e \in Errors : add_vectore_by_word_err(o, e)
        \/ \E vector \in WordResponses : add_vectore_by_word_ok(o, vector)
        \/ \E text \in TextsThatFit(ShortTexts) : add_vectore_by_text_call(o, text)
        \/ \E e \in Errors : add_vectore_by_text_err(o, e)
        \/ \E vector \in BatchResponsesFor(o) : add_vectore_by_text_ok(o, vector)

SpecInterleaved == Init /\ [][NextInterleaved]_vars

(* ------------------------------- claims -------------------------------- *)

InsertOps == {o \in Ops : ops[o].kind \in {"word", "text"}}

TextOps == {o \in Ops : ops[o].kind = "text"}

QueryOps == {o \in Ops : ops[o].kind = "query"}

\* words and index have the same length, the handles are 0, 1, 2, ... in
\* insertion order, and handle h carries the word and the vector of the h-th
\* call of add
Aligned ==
    /\ Len(words) = db.size
    /\ Len(db.points) = db.size
    /\ Len(db.bucket) = db.size
    /\ Len(log) = db.size
    /\ \A h \in 1..db.size :
           /\ db.bucket[h] = h - 1
           /\ words[h] = log[h].word
           /\ db.points[h] = log[h].vector

\* C1: after any sequence of insertions none of which panicked, the label
\* table has as many entries as the index, the handles are 0, 1, 2, ... in
\* insertion order and words[h] is the token inserted with the vector of h.
C1_LabelsAligned == panicked = "none" => Aligned

\* a word insertion followed by a text insertion, both returned Ok
C1_Witness ==
    /\ panicked = "none"
    /\ ops[1].kind = "text" /\ ops[1].status = "ok"
    /\ Len(ops[1].snapWords) >= 1
    /\ Len(words) > Len(ops[1].snapWords)

\* C2: an insertion of a vector whose length is not the store's dimension is
\* rejected with a DimensionMismatch error returned to the caller and changes
\* neither the index count nor the length of the label table.
C2_WrongLengthRejected ==
    rejected.happened =>
        /\ \E o \in InsertOps : ops[o].status = "err" /\ ops[o].error = "DimensionMismatch"
        /\ panicked = "none"
        /\ Len(words) = rejected.len
        /\ db.size = rejected.size

\* C3: a word insertion whose fetch failed returned the error and left the
\* label table and the index exactly as they were when it was called.
C3_WordAtomicOnFailure ==
    \A o \in Ops :
        (ops[o].kind = "word" /\ ops[o].status = "err") =>
            /\ ops[o].error \in Errors
            /\ words = ops[o].snapWords
            /\ db = ops[o].snapDb

\* a failed word insertion into a store that already holds a word
C3_Witness ==
    /\ ops[1].kind = "word" /\ ops[1].status = "err"
    /\ Len(words) >= 1

\* the tokens the first k batches of o put into the store: of each batch as
\* many as its response held vectors
RECURSIVE CommittedTokens(_, _)
CommittedTokens(o, k) ==
    IF k = 0 THEN <<>>
    ELSE CommittedTokens(o, k - 1)
         \o SubSeq(ops[o].sent[k], 1, Min(ops[o].got[k], Len(ops[o].sent[k])))

\* every answered batch of o came back with one vector per token
FullResponses(o) ==
    \A c \in 1..Len(ops[o].got) : ops[o].got[c] = Len(ops[o].sent[c])

\* C4: when the request of batch b of a text insertion fails, the call
\* returns the error, what batches 1..b-1 inserted stays in the label table
\* and the index (all their tokens when their responses were complete), and
\* nothing of batch b or a later batch is inserted or requested.
C4_PartialSuccess ==
    \A o \in TextOps :
        ops[o].status = "err" =>
            LET b == Len(ops[o].sent)
                before == Len(ops[o].snapWords)
            IN  /\ ops[o].error \in Errors
                /\ Len(ops[o].got) = b - 1
                /\ Outstanding(o) = {}
                /\ words = ops[o].snapWords \o CommittedTokens(o, b - 1)
                /\ db.size = Len(words)
                /\ \A h \in 1..Len(words) : db.bucket[h] = h - 1
                /\ SubSeq(db.points, 1, before) = ops[o].snapDb.points
                /\ FullResponses(o) =>
                       words = ops[o].snapWords
                                   \o SubSeq(ops[o].word_array, 1, (b - 1) * ChunkSize)

\* the second of three batches failed after a complete first batch
C4_Witness ==
    /\ ops[1].kind = "text" /\ ops[1].status = "err"
    /\ Len(ops[1].word_array) = 2 * ChunkSize + 5
    /\ Len(ops[1].sent) = 2
    /\ ops[1].got = <<ChunkSize>>
    /\ Len(words) = ChunkSize

\* the tokens joined by newlines
RECURSIVE JoinWords(_, _, _)
JoinWords(word_array, lo, hi) ==
    IF lo = hi THEN word_array[lo]
    ELSE LET mid == (lo + hi) \div 2
         IN  JoinWords(word_array, lo, mid) \o <<NL>> \o JoinWords(word_array, mid + 1, hi)

C6_ShortResponseIsError ==
    \A o \in TextOps :
        \A c \in 1..Len(ops[o].got) :
            ops[o].got[c] < Len(ops[o].sent[c]) =>
                /\ ops[o].status = "err"
                /\ ops[o].error = "DeserializationError"
                /\ c = Len(ops[o].got)
                /\ words = ops[o].snapWords \o CommittedTokens(o, c - 1)

WellFormed(vector) ==
    /\ Len(vector) = Dim
    /\ \A d \in 1..Len(vector) : vector[d] # NonFinite

RECURSIVE SqDistFrom(_, _, _)
SqDistFrom(a, b, d) ==
    IF d > Len(a) THEN 0
    ELSE (b[d] - a[d]) * (b[d] - a[d]) + SqDistFrom(a, b, d + 1)

\* distance of the vector stored under handle h from the query of o
DistOf(o, h) == SqDistFrom(ops[o].fetched[1], db.points[h + 1], 1)

C9_TiesInInsertionOrder ==
    \A o \in QueryOps :
        ops[o].status = "ok" =>
            /\ ops[o].out = find_similers(Store, ops[o].fetched[1], ops[o].top_k).out
            /\ \A i \in 1..Len(ops[o].hits) : \A j \in (i + 1)..Len(ops[o].hits) :
                   ops[o].hits[i].distance = ops[o].hits[j].distance =>
                       ops[o].hits[i].element < ops[o].hits[j].element

\* C10: with several insertions in flight and interleaved at their fetches,
\* the label table and the index stay aligned in every reachable state.
C10_AlignedWhenInterleaved == Cardinality(InsertOps) >= 2 => Aligned

=============================================================================
